---------------------------- MODULE Spec2Model ----------------------------
(***************************************************************************)
(* Model of the Morse transcoder: the AVL search tree with lazy removal    *)
(* (src/adt/bistree.c over src/adt/bitree.c) and the codec built on it     *)
(* (src/morse.c).  A C string is a sequence of one-character strings; a    *)
(* tree is a value: NULL for an end of branch, otherwise a bitree node      *)
(* [data, left, right] whose data is the avl record [data, is_hidden,      *)
(* factor].                                                                *)
(***************************************************************************)
EXTENDS Integers, Sequences, FiniteSets, TLC

VARIABLES
    phase,      \* "start" before morse_init; then "ready", or "partial" when
                \* an allocation failed while the alphabet was inserted;
                \* "destroyed" once bistree_destroy has freed the tree
    tree,       \* tree->root
    size,       \* tree->size
    op,         \* name of the last call
    ret,        \* its return value
    out,        \* *data as bistree_lookup leaves it (NUL after other calls)
    arg,        \* its argument
    before,     \* history: what the tree held for the key of arg at the call
    live,       \* history: payloads accepted by an insert, not removed since
    text,       \* src given to morse_encode
    flags,      \* flags given to morse_encode
    dflags,     \* flags given to morse_decode
    stage,      \* position in the encode / decode / re-encode pipeline
    encoded,    \* result of morse_encode:  [ret, dst]
    decoded,    \* result of morse_decode:  [ret, dst]
    reencoded,  \* result of morse_encode on the decoded text
    freed,      \* payloads the last call handed to tree->destroy, in order
    forest      \* the plain binary trees the caller of bitree_merge holds

vars == <<phase, tree, size, op, arg, ret, out, before, live,
          text, flags, dflags, stage, encoded, decoded, reencoded,
          freed, forest>>

treeVars  == <<phase, tree, size, op, arg, ret, out, before, live>>
codecVars == <<text, flags, dflags, stage, encoded, decoded, reencoded>>

(***************************************************************************)
(* Bounds of the model                                                     *)
(***************************************************************************)
MaxKeys == 6        \* distinct keys inserted into the generic tree
MaxRemoved == 2     \* distinct keys removed from the generic tree
MaxTextLen == 3     \* length of the texts given to morse_encode
MaxEditLen == 2     \* length of the texts encoded with an edited alphabet
MaxPieces == 3      \* pieces a received Morse string is made of
MaxTokenLen == 3    \* length of the dot/dash tokens given to decodeChar

(***************************************************************************)
(* Characters                                                              *)
(***************************************************************************)
NUL == "NUL"        \* the string terminator '\0'

LowerCase == <<"a", "b", "c", "d", "e", "f", "g", "h", "i", "j", "k", "l", "m",
               "n", "o", "p", "q", "r", "s", "t", "u", "v", "w", "x", "y", "z">>
UpperCase == <<"A", "B", "C", "D", "E", "F", "G", "H", "I", "J", "K", "L", "M",
               "N", "O", "P", "Q", "R", "S", "T", "U", "V", "W", "X", "Y", "Z">>

\* the table behind toupper, computed once
UpperOf ==
    [c \in {LowerCase[i] : i \in 1..Len(LowerCase)} |->
        UpperCase[CHOOSE i \in 1..Len(LowerCase) : LowerCase[i] = c]]

toupper(c) == IF c \in DOMAIN UpperOf THEN UpperOf[c] ELSE c

isspace(c) == c = " "

MORSE_MAX_NODES == 45
MORSE_MESSAGE_MAX_LENGTH == 500
MORSE_USE_SEPARATORS == 1
MORSE_USE_PROSIGNS == 2
MORSE_DIT == <<".">>
MORSE_DAH == <<"-">>
MORSE_SEP == <<" ">>
MORSE_CHAR_SEPARATOR == <<" ", " ">>
MORSE_WORD_SEPARATOR == <<" ", " ", " ", " ", " ", " ">>
MORSE_PROSIGN_CT == <<"C", "T">>
MORSE_PROSIGN_SK == <<"S", "K">>

MORSE_WEIGHTED_NODES ==
    <<"5", "H", "4", "S", "V", "3", "I", "F", "U", "[", "2", "E", "L", "R",
      "+", "]", "A", "P", "W", "J", "1", "~", "6", "B", "=", "D", "/", "X",
      "N", "C", "K", "Y", "T", "7", "Z", "G", "Q", "M", "8", "(", "O", "9",
      ")", "0">>

\* the International table documented at the top of morse.h
International ==
    <<
    <<"A", <<".", "-">>>>,
    <<"B", <<"-", ".", ".", ".">>>>,
    <<"C", <<"-", ".", "-", ".">>>>,
    <<"D", <<"-", ".", ".">>>>,
    <<"E", <<".">>>>,
    <<"F", <<".", ".", "-", ".">>>>,
    <<"G", <<"-", "-", ".">>>>,
    <<"H", <<".", ".", ".", ".">>>>,
    <<"I", <<".", ".">>>>,
    <<"J", <<".", "-", "-", "-">>>>,
    <<"K", <<"-", ".", "-">>>>,
    <<"L", <<".", "-", ".", ".">>>>,
    <<"M", <<"-", "-">>>>,
    <<"N", <<"-", ".">>>>,
    <<"O", <<"-", "-", "-">>>>,
    <<"P", <<".", "-", "-", ".">>>>,
    <<"Q", <<"-", "-", ".", "-">>>>,
    <<"R", <<".", "-", ".">>>>,
    <<"S", <<".", ".", ".">>>>,
    <<"T", <<"-">>>>,
    <<"U", <<".", ".", "-">>>>,
    <<"V", <<".", ".", ".", "-">>>>,
    <<"W", <<".", "-", "-">>>>,
    <<"X", <<"-", ".", ".", "-">>>>,
    <<"Y", <<"-", ".", "-", "-">>>>,
    <<"Z", <<"-", "-", ".", ".">>>>,
    <<"0", <<"-", "-", "-", "-", "-">>>>,
    <<"1", <<".", "-", "-", "-", "-">>>>,
    <<"2", <<".", ".", "-", "-", "-">>>>,
    <<"3", <<".", ".", ".", "-", "-">>>>,
    <<"4", <<".", ".", ".", ".", "-">>>>,
    <<"5", <<".", ".", ".", ".", ".">>>>,
    <<"6", <<"-", ".", ".", ".", ".">>>>,
    <<"7", <<"-", "-", ".", ".", ".">>>>,
    <<"8", <<"-", "-", "-", ".", ".">>>>,
    <<"9", <<"-", "-", "-", "-", ".">>>>
    >>

InternationalTable ==
    [c \in {International[k][1] : k \in 1..Len(International)} |->
        International[CHOOSE k \in 1..Len(International) :
                          International[k][1] = c][2]]

\* the alphabet listed in priority order instead of level by level
morse_nodes_by_weight == MORSE_WEIGHTED_NODES \o <<NUL>>

\* the array with its last symbol missing
morse_nodes_short ==
    SubSeq(MORSE_WEIGHTED_NODES, 1, Len(MORSE_WEIGHTED_NODES) - 1)
        \o <<NUL, NUL>>

\* char morse_nodes[MORSE_MAX_NODES]: 44 symbols and the terminator
morse_nodes ==
    <<"~", "E", "T", "I", "A", "M", "N", "S", "U", "R", "W", "D", "K", "G",
      "O", "H", "V", "F", "L", "P", "J", "B", "X", "Y", "C", "Z", "Q", "(",
      ")", "5", "4", "3", "[", "2", "]", "+", "1", "6", "=", "/", "7", "8",
      "9", "0", NUL>>

\* offset of every symbol in MORSE_WEIGHTED_NODES, computed once
WeightedPos ==
    [c \in {MORSE_WEIGHTED_NODES[i] : i \in 1..Len(MORSE_WEIGHTED_NODES)} |->
        (CHOOSE i \in 1..Len(MORSE_WEIGHTED_NODES) :
             MORSE_WEIGHTED_NODES[i] = c) - 1]

\* strchr(MORSE_WEIGHTED_NODES, c) - MORSE_WEIGHTED_NODES, or -1 for a null
\* result; the terminator itself is found at the end of the string
strchr(c) ==
    IF c = NUL THEN Len(MORSE_WEIGHTED_NODES)
    ELSE IF c \in DOMAIN WeightedPos THEN WeightedPos[c]
    ELSE -1

\* s_compare is only ever called on characters of the table (the callers
\* filter with strchr first), where both positions are defined
s_compare(key1, key2) ==
    LET pos1 == strchr(toupper(key1))
        pos2 == strchr(toupper(key2))
    IN  IF pos1 > pos2 THEN 1 ELSE IF pos1 < pos2 THEN -1 ELSE 0

(***************************************************************************)
(* Binary tree nodes (bitree.h) decorated with the AVL record (bistree.h)  *)
(***************************************************************************)
AVL_LEFT_HEAVY == 1
AVL_BALANCED == 0
AVL_RIGHT_HEAVY == -1

NULL == [null |-> TRUE]

bitree_is_eob(node) == node = NULL

bitree_node_td(data) == [data |-> data, left |-> NULL, right |-> NULL]

avl_node_td(data) ==
    [data |-> data, is_hidden |-> FALSE, factor |-> AVL_BALANCED]

bistree_data(node) == node.data.data
bistree_factor(node) == node.data.factor
bistree_is_hidden(node) == node.data.is_hidden

\* bitree_ins_left that counts the node before it allocates it
bitree_ins_left_counted(sz, node, data, nomem) ==
    IF node = NULL
    THEN IF sz > 0
         THEN [size |-> sz, node |-> node, retval |-> -1]
         ELSE IF nomem
         THEN [size |-> sz + 1, node |-> node, retval |-> -1]
         ELSE [size |-> sz + 1, node |-> bitree_node_td(data), retval |-> 0]
    ELSE IF node.left # NULL
         THEN [size |-> sz, node |-> node, retval |-> -1]
         ELSE IF nomem
         THEN [size |-> sz + 1, node |-> node, retval |-> -1]
         ELSE [size |-> sz + 1, node |-> [node EXCEPT !.left = bitree_node_td(data)],
               retval |-> 0]

\* bitree_ins_left: node = NULL inserts at the root of an empty tree.  The
\* result carries the anchor with its new child (or the new root itself).
bitree_ins_left(sz, node, data, nomem) ==
    IF node = NULL
    THEN IF sz > 0 \/ nomem
         THEN [size |-> sz, node |-> node, retval |-> -1]
         ELSE [size |-> sz + 1, node |-> bitree_node_td(data), retval |-> 0]
    ELSE IF node.left # NULL \/ nomem
         THEN [size |-> sz, node |-> node, retval |-> -1]
         ELSE [size |-> sz + 1, node |-> [node EXCEPT !.left = bitree_node_td(data)],
               retval |-> 0]

bitree_ins_right(sz, node, data, nomem) ==
    IF node = NULL
    THEN IF sz > 0 \/ nomem
         THEN [size |-> sz, node |-> node, retval |-> -1]
         ELSE [size |-> sz + 1, node |-> bitree_node_td(data), retval |-> 0]
    ELSE IF node.right # NULL \/ nomem
         THEN [size |-> sz, node |-> node, retval |-> -1]
         ELSE [size |-> sz + 1, node |-> [node EXCEPT !.right = bitree_node_td(data)],
               retval |-> 0]

(***************************************************************************)
(* Plain binary trees (bitree.c): a tree object is [size, root]            *)
(***************************************************************************)
\* what bitree_init leaves in the object it allocates
bitree_init == [size |-> 0, root |-> NULL]

\* bitree_merge: merge, left and right are the objects the three pointers
\* name.  The parameter merge is assigned the tree bitree_init allocates,
\* so the object the caller passed is never written; local is the tree the
\* parameter names at the return, NULL when it was destroyed or never
\* allocated.  nomem: 1 bitree_init fails, 2 the root node, 0 none.
bitree_merge(merge, left, right, data, nomem) ==
    LET ins == bitree_ins_left(bitree_init.size, bitree_init.root, data,
                               nomem = 2)
    IN  IF nomem = 1 \/ ins.retval # 0
        THEN [retval |-> -1, merge |-> merge, left |-> left,
              right |-> right, local |-> NULL]
        ELSE [retval |-> 0,
              merge |-> merge,
              left |-> [size |-> 0, root |-> NULL],
              right |-> [size |-> 0, root |-> NULL],
              local |-> [size |-> ins.size + left.size + right.size,
                         root |-> [ins.node EXCEPT !.left = left.root,
                                                   !.right = right.root]]]

\* no plain tree is in use
NoForest ==
    [merge |-> bitree_init, left |-> bitree_init, right |-> bitree_init,
     unowned |-> {}]

(***************************************************************************)
(* Rotations (bistree.c)                                                   *)
(***************************************************************************)
SetFactor(node, f) == [node EXCEPT !.data.factor = f]

\* _rotate_left whose LL case leaves the old root's factor as it was
_rotate_left_stale(node) ==
    LET left == node.left IN
    IF bistree_factor(left) = AVL_LEFT_HEAVY
    THEN [SetFactor(left, AVL_BALANCED) EXCEPT
              !.right = [node EXCEPT !.left = left.right]]
    ELSE LET grandchild == left.right
             gf == bistree_factor(grandchild)
             nodef == IF gf = AVL_LEFT_HEAVY THEN AVL_RIGHT_HEAVY
                      ELSE AVL_BALANCED
             leftf == IF gf = AVL_RIGHT_HEAVY THEN AVL_LEFT_HEAVY
                      ELSE AVL_BALANCED
         IN  [SetFactor(grandchild, AVL_BALANCED) EXCEPT
                  !.left = [SetFactor(left, leftf) EXCEPT
                                !.right = grandchild.left],
                  !.right = [SetFactor(node, nodef) EXCEPT
                                 !.left = grandchild.right]]

\* LL or LR rotation; the result is the new *node
_rotate_left(node) ==
    LET left == node.left IN
    IF bistree_factor(left) = AVL_LEFT_HEAVY
    THEN [SetFactor(left, AVL_BALANCED) EXCEPT
              !.right = [SetFactor(node, AVL_BALANCED) EXCEPT
                             !.left = left.right]]
    ELSE LET grandchild == left.right
             gf == bistree_factor(grandchild)
             nodef == CASE gf = AVL_LEFT_HEAVY -> AVL_RIGHT_HEAVY
                        [] gf = AVL_BALANCED -> AVL_BALANCED
                        [] gf = AVL_RIGHT_HEAVY -> AVL_BALANCED
                        [] OTHER -> bistree_factor(node)
             leftf == CASE gf = AVL_LEFT_HEAVY -> AVL_BALANCED
                        [] gf = AVL_BALANCED -> AVL_BALANCED
                        [] gf = AVL_RIGHT_HEAVY -> AVL_LEFT_HEAVY
                        [] OTHER -> bistree_factor(left)
         IN  [SetFactor(grandchild, AVL_BALANCED) EXCEPT
                  !.left = [SetFactor(left, leftf) EXCEPT
                                !.right = grandchild.left],
                  !.right = [SetFactor(node, nodef) EXCEPT
                                 !.left = grandchild.right]]

\* _rotate_right whose RR case hands the old root the wrong grandchild
_rotate_right_wrong_child(node) ==
    LET right == node.right IN
    IF bistree_factor(right) = AVL_RIGHT_HEAVY
    THEN [SetFactor(right, AVL_BALANCED) EXCEPT
              !.left = [SetFactor(node, AVL_BALANCED) EXCEPT
                            !.right = right.right]]
    ELSE LET grandchild == right.left
             gf == bistree_factor(grandchild)
             nodef == IF gf = AVL_RIGHT_HEAVY THEN AVL_LEFT_HEAVY
                      ELSE AVL_BALANCED
             rightf == IF gf = AVL_LEFT_HEAVY THEN AVL_RIGHT_HEAVY
                       ELSE AVL_BALANCED
         IN  [SetFactor(grandchild, AVL_BALANCED) EXCEPT
                  !.right = [SetFactor(right, rightf) EXCEPT
                                 !.left = grandchild.right],
                  !.left = [SetFactor(node, nodef) EXCEPT
                                !.right = grandchild.left]]

\* RR or RL rotation; the result is the new *node
_rotate_right(node) ==
    LET right == node.right IN
    IF bistree_factor(right) = AVL_RIGHT_HEAVY
    THEN [SetFactor(right, AVL_BALANCED) EXCEPT
              !.left = [SetFactor(node, AVL_BALANCED) EXCEPT
                            !.right = right.left]]
    ELSE LET grandchild == right.left
             gf == bistree_factor(grandchild)
             nodef == CASE gf = AVL_LEFT_HEAVY -> AVL_BALANCED
                        [] gf = AVL_BALANCED -> AVL_BALANCED
                        [] gf = AVL_RIGHT_HEAVY -> AVL_LEFT_HEAVY
                        [] OTHER -> bistree_factor(node)
             rightf == CASE gf = AVL_LEFT_HEAVY -> AVL_RIGHT_HEAVY
                         [] gf = AVL_BALANCED -> AVL_BALANCED
                         [] gf = AVL_RIGHT_HEAVY -> AVL_BALANCED
                         [] OTHER -> bistree_factor(right)
         IN  [SetFactor(grandchild, AVL_BALANCED) EXCEPT
                  !.right = [SetFactor(right, rightf) EXCEPT
                                 !.left = grandchild.right],
                  !.left = [SetFactor(node, nodef) EXCEPT
                                !.right = grandchild.left]]

(***************************************************************************)
(* Insertion (bistree.c, _insert).  A call returns the subtree now held by *)
(* *node, tree->size, the status and *balanced.  nomem names the malloc of *)
(* this call that fails: 0 none, 1 the AVL record, 2 the tree node.        *)
(***************************************************************************)
\* destroyed lists the payloads the call handed to tree->destroy
InsertResult(sz, node, retval, balanced) ==
    [size |-> sz, node |-> node, retval |-> retval, balanced |-> balanced,
     destroyed |-> <<>>]

\* the left switch that lets a node turned AVL_BALANCED report growth
_insert_balance_left_propagates(node) ==
    CASE bistree_factor(node) = AVL_LEFT_HEAVY ->
             [node |-> _rotate_left(node), balanced |-> TRUE]
      [] bistree_factor(node) = AVL_BALANCED ->
             [node |-> SetFactor(node, AVL_LEFT_HEAVY), balanced |-> FALSE]
      [] bistree_factor(node) = AVL_RIGHT_HEAVY ->
             [node |-> SetFactor(node, AVL_BALANCED), balanced |-> FALSE]
      [] OTHER -> [node |-> node, balanced |-> FALSE]

\* the switch run after the left subtree grew (*balanced is false)
_insert_balance_left(node) ==
    CASE bistree_factor(node) = AVL_LEFT_HEAVY ->
             [node |-> _rotate_left(node), balanced |-> TRUE]
      [] bistree_factor(node) = AVL_BALANCED ->
             [node |-> SetFactor(node, AVL_LEFT_HEAVY), balanced |-> FALSE]
      [] bistree_factor(node) = AVL_RIGHT_HEAVY ->
             [node |-> SetFactor(node, AVL_BALANCED), balanced |-> TRUE]
      [] OTHER -> [node |-> node, balanced |-> FALSE]

\* the switch run after the right subtree grew (*balanced is false)
_insert_balance_right(node) ==
    CASE bistree_factor(node) = AVL_LEFT_HEAVY ->
             [node |-> SetFactor(node, AVL_BALANCED), balanced |-> TRUE]
      [] bistree_factor(node) = AVL_BALANCED ->
             [node |-> SetFactor(node, AVL_RIGHT_HEAVY), balanced |-> FALSE]
      [] bistree_factor(node) = AVL_RIGHT_HEAVY ->
             [node |-> _rotate_right(node), balanced |-> TRUE]
      [] OTHER -> [node |-> node, balanced |-> FALSE]

\* _insert_found that forgets to set *balanced when it reveals a node
_insert_found_unbalanced(sz, node, data, balanced) ==
    IF ~bistree_is_hidden(node)
    THEN InsertResult(sz, node, 1, balanced)
    ELSE InsertResult(sz,
             [node EXCEPT !.data.data = data, !.data.is_hidden = FALSE],
             0, balanced)

\* _insert_found that does not look at is_hidden
_insert_found_overwrites(sz, node, data, balanced) ==
    InsertResult(sz,
        [node EXCEPT !.data.data = data, !.data.is_hidden = FALSE], 0, TRUE)

\* _insert_found that replaces the hidden payload without destroying it
_insert_found_leaks(sz, node, data, balanced) ==
    IF ~bistree_is_hidden(node)
    THEN InsertResult(sz, node, 1, balanced)
    ELSE InsertResult(sz,
             [node EXCEPT !.data.data = data, !.data.is_hidden = FALSE],
             0, TRUE)

\* cmpval == 0: a copy of the data is in the tree
_insert_found(sz, node, data, balanced) ==
    IF ~bistree_is_hidden(node)
    THEN InsertResult(sz, node, 1, balanced)
    ELSE \* tree->destroy releases the hidden payload being replaced
         [InsertResult(sz,
              [node EXCEPT !.data.data = data, !.data.is_hidden = FALSE],
              0, TRUE)
          EXCEPT !.destroyed = <<bistree_data(node)>>]

RECURSIVE _insert(_, _, _, _, _)
_insert(sz, node, data, balanced, nomem) ==
    IF bitree_is_eob(node)
    THEN IF nomem = 1
         THEN InsertResult(sz, node, -1, balanced)
         ELSE LET ins == bitree_ins_left(sz, node, avl_node_td(data),
                                         nomem = 2)
              IN  InsertResult(ins.size, ins.node, ins.retval, balanced)
    ELSE LET cmpval == s_compare(data, bistree_data(node)) IN
         IF cmpval < 0
         THEN IF bitree_is_eob(node.left)
              THEN IF nomem = 1
                   THEN InsertResult(sz, node, -1, balanced)
                   ELSE LET ins == bitree_ins_left(sz, node,
                                       avl_node_td(data), nomem = 2)
                            bal == _insert_balance_left(ins.node)
                        IN  IF ins.retval # 0
                            THEN InsertResult(ins.size, ins.node, -1, balanced)
                            ELSE InsertResult(ins.size, bal.node, 0,
                                              bal.balanced)
              ELSE LET rec == _insert(sz, node.left, data, balanced, nomem)
                       sub == [node EXCEPT !.left = rec.node]
                       bal == _insert_balance_left(sub)
                   IN  IF rec.retval # 0
                       THEN [rec EXCEPT !.node = sub]
                       ELSE IF ~rec.balanced
                       THEN [rec EXCEPT !.node = bal.node,
                                        !.balanced = bal.balanced]
                       ELSE [rec EXCEPT !.node = sub]
         ELSE IF cmpval > 0
         THEN IF bitree_is_eob(node.right)
              THEN IF nomem = 1
                   THEN InsertResult(sz, node, -1, balanced)
                   ELSE LET ins == bitree_ins_right(sz, node,
                                       avl_node_td(data), nomem = 2)
                            bal == _insert_balance_right(ins.node)
                        IN  IF ins.retval # 0
                            THEN InsertResult(ins.size, ins.node, -1, balanced)
                            ELSE InsertResult(ins.size, bal.node, 0,
                                              bal.balanced)
              ELSE LET rec == _insert(sz, node.right, data, balanced, nomem)
                       sub == [node EXCEPT !.right = rec.node]
                       bal == _insert_balance_right(sub)
                   IN  IF rec.retval # 0
                       THEN [rec EXCEPT !.node = sub]
                       ELSE IF ~rec.balanced
                       THEN [rec EXCEPT !.node = bal.node,
                                        !.balanced = bal.balanced]
                       ELSE [rec EXCEPT !.node = sub]
         ELSE _insert_found(sz, node, data, balanced)

(***************************************************************************)
(* Lazy removal and lookup (bistree.c, _hide and _lookup)                  *)
(***************************************************************************)
\* _hide_found that unlinks a leaf instead of marking it
_hide_found_unlinks(node) ==
    IF node.left = NULL /\ node.right = NULL
    THEN [node |-> NULL, retval |-> 0]
    ELSE [node |-> [node EXCEPT !.data.is_hidden = TRUE], retval |-> 0]

\* _hide_found that reports a node already hidden as not found
_hide_found_once(node) ==
    IF bistree_is_hidden(node)
    THEN [node |-> node, retval |-> -1]
    ELSE [node |-> [node EXCEPT !.data.is_hidden = TRUE], retval |-> 0]

\* cmpval == 0 in _hide: mark the node as hidden
_hide_found(node) ==
    [node |-> [node EXCEPT !.data.is_hidden = TRUE], retval |-> 0]

RECURSIVE _hide(_, _)
_hide(node, data) ==
    IF bitree_is_eob(node)
    THEN [node |-> node, retval |-> -1]
    ELSE LET cmpval == s_compare(data, bistree_data(node)) IN
         IF cmpval < 0
         THEN LET rec == _hide(node.left, data)
              IN  [node |-> [node EXCEPT !.left = rec.node],
                   retval |-> rec.retval]
         ELSE IF cmpval > 0
         THEN LET rec == _hide(node.right, data)
              IN  [node |-> [node EXCEPT !.right = rec.node],
                   retval |-> rec.retval]
         ELSE _hide_found(node)

\* _lookup_found that does not look at is_hidden
_lookup_found_sees_hidden(node, data) ==
    [retval |-> 0, data |-> bistree_data(node)]

\* cmpval == 0 in _lookup: pass the data back unless the node is hidden
_lookup_found(node, data) ==
    IF ~bistree_is_hidden(node)
    THEN [retval |-> 0, data |-> bistree_data(node)]
    ELSE [retval |-> -1, data |-> data]

\* data is the caller's *data, handed back untouched unless a visible
\* match is found
RECURSIVE _lookup(_, _)
_lookup(node, data) ==
    IF bitree_is_eob(node)
    THEN [retval |-> -1, data |-> data]
    ELSE LET cmpval == s_compare(data, bistree_data(node)) IN
         IF cmpval < 0 THEN _lookup(node.left, data)
         ELSE IF cmpval > 0 THEN _lookup(node.right, data)
         ELSE _lookup_found(node, data)

(***************************************************************************)
(* Teardown (bistree.c, _destroy_left / _destroy_right and bistree_destroy)*)
(***************************************************************************)
\* the teardown that frees the nodes and leaves their payloads alone
RECURSIVE _destroy_left_nodes_only(_, _)
_destroy_left_nodes_only(sz, position) ==
    IF sz = 0 \/ position = NULL
    THEN [size |-> sz, node |-> position, destroyed |-> <<>>]
    ELSE LET l == _destroy_left_nodes_only(sz, position.left)
             r == _destroy_left_nodes_only(l.size, position.right)
         IN  [size |-> r.size - 1, node |-> NULL, destroyed |-> <<>>]

\* _destroy_left and _destroy_right on the subtree held by *position (the
\* root, or the left or right link of a node): nothing is done once
\* tree->size is 0; otherwise the left subtree, the right subtree, then
\* the node: its payload goes to tree->destroy, the avl record and the
\* node are freed and tree->size is decremented
RECURSIVE _destroy_left(_, _), _destroy_right(_, _)
_destroy_left(sz, position) ==
    IF sz = 0 \/ position = NULL
    THEN [size |-> sz, node |-> position, destroyed |-> <<>>]
    ELSE LET l == _destroy_left(sz, position.left)
             r == _destroy_right(l.size, position.right)
         IN  [size |-> r.size - 1, node |-> NULL,
              destroyed |-> l.destroyed \o r.destroyed
                            \o <<bistree_data(position)>>]

_destroy_right(sz, position) ==
    IF sz = 0 \/ position = NULL
    THEN [size |-> sz, node |-> position, destroyed |-> <<>>]
    ELSE LET l == _destroy_left(sz, position.left)
             r == _destroy_right(l.size, position.right)
         IN  [size |-> r.size - 1, node |-> NULL,
              destroyed |-> l.destroyed \o r.destroyed
                            \o <<bistree_data(position)>>]

\* bistree_destroy: _destroy_left(tree, NULL), then the tree object is freed
bistree_destroy(sz, root) == _destroy_left(sz, root)

\* bistree_insert: balanced starts false
bistree_insert(sz, root, data, nomem) == _insert(sz, root, data, FALSE, nomem)

bistree_remove(root, data) == _hide(root, data)

bistree_lookup(root, data) == _lookup(root, data)

(***************************************************************************)
(* Building the alphabet (morse.c, s_morse_generate_nodes and morse_init). *)
(* The loop runs from index i; failIdx names the iteration in which an     *)
(* allocation fails and nomem which one: 3 the character itself (the loop  *)
(* breaks), 1 or 2 inside bistree_insert (the character is freed and the   *)
(* loop goes on), 0 none.                                                  *)
(***************************************************************************)
\* the least k with 2^k >= n
RECURSIVE Doublings(_)
Doublings(n) == IF n <= 1 THEN 0 ELSE 1 + Doublings((n + 1) \div 2)

\* the state of the for loop: index, tree->size and the root
GenerateState(i, sz, root) == [i |-> i, size |-> sz, root |-> root]

\* the condition of the for loop; break leaves it with i past the end
GenerateRunning(s) == s.i < MORSE_MAX_NODES

\* one iteration of the for loop; a finished loop stays as it is
GenerateStep(s, failIdx, nomem) ==
    IF ~GenerateRunning(s) THEN s
    ELSE IF morse_nodes[s.i + 1] = NUL
    THEN GenerateState(s.i + 1, s.size, s.root)
    ELSE IF s.i = failIdx /\ nomem = 3
    THEN GenerateState(MORSE_MAX_NODES, s.size, s.root)
    ELSE LET ins == bistree_insert(s.size, s.root, morse_nodes[s.i + 1],
                                   IF s.i = failIdx THEN nomem ELSE 0)
         IN  \* on a non-zero status data[i] is freed and the loop goes on
             GenerateState(s.i + 1, ins.size, ins.node)

\* up to 2^k iterations of the for loop, stopping when it has finished
RECURSIVE GenerateIterate(_, _, _, _)
GenerateIterate(s, failIdx, nomem, k) ==
    IF k = 0
    THEN GenerateStep(s, failIdx, nomem)
    ELSE LET half == GenerateIterate(s, failIdx, nomem, k - 1)
         IN  IF GenerateRunning(half)
             THEN GenerateIterate(half, failIdx, nomem, k - 1)
             ELSE half

\* the for loop from index i
s_morse_generate_nodes(i, sz, root, failIdx, nomem) ==
    LET s == GenerateIterate(GenerateState(i, sz, root), failIdx, nomem,
                             Doublings(MORSE_MAX_NODES))
    IN  [size |-> s.size, root |-> s.root]

\* bistree_init leaves an empty tree, which the alphabet is inserted into
morse_init(failIdx, nomem) == s_morse_generate_nodes(0, 0, NULL, failIdx, nomem)

(***************************************************************************)
(* Character codec (morse.c)                                               *)
(***************************************************************************)
\* the descent with no regard for the hidden flag of the node found
RECURSIVE s_morse_encode_char_blind(_, _, _, _)
s_morse_encode_char_blind(node, data, dst, use_separators) ==
    IF bitree_is_eob(node)
    THEN [retval |-> -1, dst |-> dst]
    ELSE LET cmpval == s_compare(data, bistree_data(node))
             sep == IF use_separators THEN MORSE_SEP ELSE <<>>
         IN  IF cmpval < 0
             THEN s_morse_encode_char_blind(node.left, data,
                      dst \o MORSE_DIT \o sep, use_separators)
             ELSE IF cmpval > 0
             THEN s_morse_encode_char_blind(node.right, data,
                      dst \o MORSE_DAH \o sep, use_separators)
             ELSE [retval |-> 0, dst |-> dst]

\* descends from node towards data, appending to dst on the way
RECURSIVE s_morse_encode_char(_, _, _, _)
s_morse_encode_char(node, data, dst, use_separators) ==
    IF bitree_is_eob(node)
    THEN [retval |-> -1, dst |-> dst]
    ELSE LET cmpval == s_compare(data, bistree_data(node))
             sep == IF use_separators THEN MORSE_SEP ELSE <<>>
         IN  IF cmpval < 0
             THEN s_morse_encode_char(node.left, data,
                      dst \o MORSE_DIT \o sep, use_separators)
             ELSE IF cmpval > 0
             THEN s_morse_encode_char(node.right, data,
                      dst \o MORSE_DAH \o sep, use_separators)
             ELSE IF ~bistree_is_hidden(node)
                  THEN [retval |-> 0, dst |-> dst]
                  ELSE [retval |-> -1, dst |-> dst]

\* the for loop of s_morse_decode_char from index i (0-based) at node
RECURSIVE s_morse_decode_walk(_, _, _)
s_morse_decode_walk(node, morse_str, i) ==
    IF i >= Len(morse_str)
    THEN IF bistree_is_hidden(node)
         THEN [retval |-> -1, dst |-> NUL]
         ELSE [retval |-> 0, dst |-> bistree_data(node)]
    ELSE LET c == morse_str[i + 1] IN
         IF c = MORSE_SEP[1]
         THEN s_morse_decode_walk(node, morse_str, i + 1)
         ELSE IF c # MORSE_DIT[1] /\ c # MORSE_DAH[1]
         THEN [retval |-> -1, dst |-> NUL]
         ELSE LET next == IF c = MORSE_DIT[1] THEN node.left ELSE node.right
              IN  IF bitree_is_eob(next)
                  THEN [retval |-> -1, dst |-> NUL]
                  ELSE s_morse_decode_walk(next, morse_str, i + 1)

\* a space in the token is an unexpected character
s_morse_decode_char_strict(root, morse_str) ==
    IF bitree_is_eob(root) \/ \E i \in 1..Len(morse_str) : morse_str[i] = " "
    THEN [retval |-> -1, dst |-> NUL]
    ELSE s_morse_decode_walk(root, morse_str, 0)

\* dst is NUL when nothing is stored in *dst
s_morse_decode_char(root, morse_str) ==
    IF bitree_is_eob(root)
    THEN [retval |-> -1, dst |-> NUL]
    ELSE s_morse_decode_walk(root, morse_str, 0)

(***************************************************************************)
(* s_trim (morse.c)                                                        *)
(***************************************************************************)
RECURSIVE SkipLeading(_)
SkipLeading(s) ==
    IF s # <<>> /\ isspace(Head(s)) THEN SkipLeading(Tail(s)) ELSE s

\* end stops at the first character of start even if it is a space
RECURSIVE DropTrailing(_)
DropTrailing(s) ==
    IF Len(s) > 1 /\ isspace(s[Len(s)])
    THEN DropTrailing(SubSeq(s, 1, Len(s) - 1))
    ELSE s

s_trim(s) ==
    LET start == SkipLeading(s) IN
    IF start = <<>> THEN <<>> ELSE DropTrailing(start)

(***************************************************************************)
(* morse_encode (morse.c)                                                  *)
(***************************************************************************)
\* separators whatever the flags
UseSeparators_always(f) == TRUE

UseSeparators(f) == (f \div MORSE_USE_SEPARATORS) % 2 = 1
UseProsigns(f) == (f \div MORSE_USE_PROSIGNS) % 2 = 1

\* a prosign written like a word, its characters a separator apart
RECURSIVE EncodeProsign_gapped(_, _, _, _, _)
EncodeProsign_gapped(root, prosign, i, dst, f) ==
    IF i >= Len(prosign)
    THEN [retval |-> 0, dst |-> dst]
    ELSE LET e == s_morse_encode_char(root, prosign[i + 1], dst,
                                       UseSeparators(f))
         IN  IF e.retval # 0
             THEN [retval |-> -1, dst |-> e.dst]
             ELSE EncodeProsign_gapped(root, prosign, i + 1,
                      IF UseSeparators(f) /\ i + 1 < Len(prosign)
                      THEN e.dst \o MORSE_CHAR_SEPARATOR ELSE e.dst, f)

\* the loop over a prosign from index i: its characters back to back
RECURSIVE EncodeProsign(_, _, _, _, _)
EncodeProsign(root, prosign, i, dst, f) ==
    IF i >= Len(prosign)
    THEN [retval |-> 0, dst |-> dst]
    ELSE LET e == s_morse_encode_char(root, prosign[i + 1], dst,
                                       UseSeparators(f))
         IN  IF e.retval # 0
             THEN [retval |-> -1, dst |-> e.dst]
             ELSE EncodeProsign(root, prosign, i + 1, e.dst, f)

IsFiller(c) == c \in {"~", "(", ")", "[", "]"}

\* src[i] for a 0-based i, the terminator at the end
CharAt(src, i) == IF i < Len(src) THEN src[i + 1] ELSE NUL

\* a character separator after every encoded character
CharGap_always(src, i, f) ==
    IF UseSeparators(f) THEN MORSE_CHAR_SEPARATOR ELSE <<>>

\* what follows the code of src[i]: the character separator unless the
\* next character of src is a space or the terminator
CharGap(src, i, f) ==
    IF /\ UseSeparators(f)
       /\ CharAt(src, i + 1) # " "
       /\ CharAt(src, i + 1) # NUL
    THEN MORSE_CHAR_SEPARATOR ELSE <<>>

\* the state of the loop "send the transmission": index, output so far
\* and the status, -1 once a character could not be encoded
EncodeState(i, dst, retval) == [i |-> i, dst |-> dst, retval |-> retval]

\* the loop goes on
EncodeRunning(src, s) == s.i < Len(src) /\ s.retval = 0

\* one iteration of the loop; a finished loop stays as it is
EncodeStep(root, src, f, s) ==
    IF ~EncodeRunning(src, s) THEN s
    ELSE IF IsFiller(src[s.i + 1])
    THEN EncodeState(s.i + 1, s.dst, 0)
    ELSE IF UseSeparators(f) /\ src[s.i + 1] = " "
    THEN EncodeState(s.i + 1, s.dst \o MORSE_WORD_SEPARATOR, 0)
    ELSE IF strchr(toupper(src[s.i + 1])) # -1
    THEN LET e == s_morse_encode_char(root, src[s.i + 1], s.dst,
                                       UseSeparators(f))
             gap == CharGap(src, s.i, f)
         IN  IF e.retval # 0
             THEN EncodeState(s.i, e.dst, -1)
             ELSE EncodeState(s.i + 1, e.dst \o gap, 0)
    ELSE EncodeState(s.i + 1, s.dst, 0)

\* up to 2^k iterations of the loop, stopping when it has finished
RECURSIVE EncodeIterate(_, _, _, _, _)
EncodeIterate(root, src, f, s, k) ==
    IF k = 0
    THEN EncodeStep(root, src, f, s)
    ELSE LET half == EncodeIterate(root, src, f, s, k - 1)
         IN  IF EncodeRunning(src, half)
             THEN EncodeIterate(root, src, f, half, k - 1)
             ELSE half

\* the loop from index i; every iteration advances i or ends the loop
EncodeMessage(root, src, i, dst, f) ==
    LET s == EncodeIterate(root, src, f, EncodeState(i, dst, 0),
                           Doublings(Len(src) + 1))
    IN  [retval |-> s.retval, dst |-> s.dst]

\* nomem: the allocation of tmp fails; dst0 is what the buffer held
morse_encode(root, dst0, src, f, nomem) ==
    IF nomem
    THEN [ret |-> -1, dst |-> dst0]
    ELSE LET start == IF UseProsigns(f)
                      THEN EncodeProsign(root, MORSE_PROSIGN_CT, 0, <<>>, f)
                      ELSE [retval |-> 0, dst |-> <<>>]
             dst1 == IF UseProsigns(f) /\ UseSeparators(f)
                     THEN start.dst \o MORSE_WORD_SEPARATOR ELSE start.dst
             body == EncodeMessage(root, src, 0, dst1, f)
             dst2 == IF UseProsigns(f) /\ UseSeparators(f)
                     THEN body.dst \o MORSE_WORD_SEPARATOR ELSE body.dst
             end == IF UseProsigns(f)
                    THEN EncodeProsign(root, MORSE_PROSIGN_SK, 0, dst2, f)
                    ELSE [retval |-> 0, dst |-> dst2]
         IN  IF start.retval # 0 THEN [ret |-> -1, dst |-> start.dst]
             ELSE IF body.retval # 0 THEN [ret |-> -1, dst |-> body.dst]
             ELSE IF end.retval # 0 THEN [ret |-> -1, dst |-> end.dst]
             ELSE [ret |-> 0, dst |-> end.dst]

(***************************************************************************)
(* morse_decode (morse.c)                                                  *)
(***************************************************************************)
\* a token that is not decoded discards what was decoded before it
FlushToken_aborts(root, token, dst) ==
    IF Len(token) = 0 THEN dst
    ELSE IF s_morse_decode_char(root, token).retval = 0
    THEN Append(dst, s_morse_decode_char(root, token).dst)
    ELSE <<>>

\* "finalize current token": dst gains the character the token decodes to
FlushToken(root, token, dst) ==
    IF Len(token) > 0 /\ s_morse_decode_char(root, token).retval = 0
    THEN Append(dst, s_morse_decode_char(root, token).dst)
    ELSE dst

\* strncmp(&src[i], lit, strlen(lit)) == 0 with i + strlen(lit) <= src_len
StartsWith(src, i, lit) ==
    /\ i + Len(lit) <= Len(src)
    /\ SubSeq(src, i + 1, i + Len(lit)) = lit

\* length of the run of spaces that starts at src[i]
RECURSIVE SpaceRun(_, _, _)
SpaceRun(src, i, run) ==
    IF i + run < Len(src) /\ src[i + run + 1] = " "
    THEN SpaceRun(src, i, run + 1)
    ELSE run

\* the state of the while loop: position, pending token and output
DecodeState(i, token, dst) == [i |-> i, token |-> token, dst |-> dst]

\* the condition of the while loop
DecodeRunning(src, s) ==
    s.i < Len(src) /\ Len(s.dst) < MORSE_MESSAGE_MAX_LENGTH

\* one iteration of the while loop; a finished loop stays as it is
DecodeStep(root, src, f, s) ==
    IF ~DecodeRunning(src, s)
    THEN s
    ELSE IF UseSeparators(f) /\ StartsWith(src, s.i, MORSE_WORD_SEPARATOR)
    THEN DecodeState(s.i + Len(MORSE_WORD_SEPARATOR), <<>>,
             Append(FlushToken(root, s.token, s.dst), " "))
    ELSE IF UseSeparators(f) /\ StartsWith(src, s.i, MORSE_CHAR_SEPARATOR)
    THEN DecodeState(s.i + Len(MORSE_CHAR_SEPARATOR), <<>>,
             FlushToken(root, s.token, s.dst))
    ELSE IF ~UseSeparators(f) /\ src[s.i + 1] = " "
    THEN LET run == SpaceRun(src, s.i, 1)
             flushed == FlushToken(root, s.token, s.dst)
         IN  DecodeState(s.i + run, <<>>,
                 IF run >= 2 THEN Append(flushed, " ") ELSE flushed)
    ELSE IF src[s.i + 1] \in {MORSE_DIT[1], MORSE_DAH[1], MORSE_SEP[1]}
    THEN DecodeState(s.i + 1,
             IF Len(s.token) < MORSE_MESSAGE_MAX_LENGTH
             THEN Append(s.token, src[s.i + 1]) ELSE <<>>,
             s.dst)
    ELSE DecodeState(s.i + 1, s.token, s.dst)

\* up to 2^k iterations of the while loop, stopping when it has finished
RECURSIVE DecodeIterate(_, _, _, _, _)
DecodeIterate(root, src, f, s, k) ==
    IF k = 0
    THEN DecodeStep(root, src, f, s)
    ELSE LET half == DecodeIterate(root, src, f, s, k - 1)
         IN  IF DecodeRunning(src, half)
             THEN DecodeIterate(root, src, f, half, k - 1)
             ELSE half

\* the while loop from index i with the token and the output so far; every
\* iteration advances i, so Len(src) iterations end it
DecodeMessage(root, src, f, i, token, dst) ==
    LET s == DecodeIterate(root, src, f, DecodeState(i, token, dst),
                           Doublings(Len(src) + 1))
    IN  [token |-> s.token, dst |-> s.dst]

\* out_pos is the index at which the terminator is stored before s_trim
morse_decode(root, src, f) ==
    LET loop == DecodeMessage(root, src, f, 0, <<>>, <<>>)
        dst == IF Len(loop.dst) < MORSE_MESSAGE_MAX_LENGTH
               THEN FlushToken(root, loop.token, loop.dst)
               ELSE loop.dst
    IN  [ret |-> 0, dst |-> s_trim(dst), out_pos |-> Len(dst)]

(***************************************************************************)
(* Inputs                                                                  *)
(***************************************************************************)
KeyPool == <<"E", "T", "I", "A", "N", "M", "S", "U", "R", "W">>

\* payloads offered to the generic tree: MaxKeys keys, one of them in two
\* spellings that compare equal
Payloads == {KeyPool[i] : i \in 1..MaxKeys} \cup {"e"}

\* payloads whose removal is requested
Removed == {KeyPool[i] : i \in 1..MaxRemoved} \cup {"e"}

\* payloads inserted into and removed from the built alphabet
MorsePayloads == {"E", "e", "T", "5", "~"}

\* iterations of the build in which an allocation may fail
FailPoints == {2, 43}

\* characters the texts are made of: letters in both cases, a space, a
\* filler and a character outside the table
TextChars == {"E", "t", "S", " ", "~", "#"}

\* every text of at most MaxTextLen characters
Texts == UNION {[1..n -> TextChars] : n \in 0..MaxTextLen}

Flags == {0, MORSE_USE_SEPARATORS, MORSE_USE_PROSIGNS,
          MORSE_USE_SEPARATORS + MORSE_USE_PROSIGNS}

\* payloads removed from and inserted into the alphabet before it is
\* used: a letter in both cases and a deeper letter
EditPayloads == {"E", "e", "S"}

\* characters given to encodeChar
EditChars == {"E", "e", "S", "s", "T", "5", "~"}

\* texts encoded with the edited alphabet
EditTexts == UNION {[1..n -> {"E", "s"}] : n \in 0..MaxEditLen}

\* tokens given to decodeChar: every dot/dash string of at most MaxTokenLen
\* symbols, and tokens that are longer than any path of the tree, hold a
\* space, or hold a character that is neither a dot, a dash nor a space
Tokens ==
    UNION {[1..n -> {".", "-"}] : n \in 0..MaxTokenLen}
    \cup {<<".", ".", ".", ".", ".">>,
          <<".", ".", ".", ".", ".", ".">>,
          <<".", ".", ".", ".", ".", ".", ".", ".">>,
          <<"-", "-", "-", "-", "-", "-", "-">>,
          <<" ">>, <<".", " ", ".">>, <<" ", ".", " ">>,
          <<"x">>, <<".", "x">>, <<".", ".", ".", ".", ".", ".", "x">>}

\* what received Morse strings are made of: two tokens, a token that is
\* no path of the tree between two character separators, the separators
\* and a character that is neither dot, dash nor space
Pieces ==
    {<<".">>, <<"-", ".">>,
     MORSE_CHAR_SEPARATOR \o <<".", ".", ".", ".", ".", ".">>
         \o MORSE_CHAR_SEPARATOR,
     <<" ">>, MORSE_CHAR_SEPARATOR, MORSE_WORD_SEPARATOR, <<"x">>}

RECURSIVE Joined(_)
Joined(ps) == IF ps = <<>> THEN <<>> ELSE Head(ps) \o Joined(Tail(ps))

\* every Morse string of at most MaxPieces pieces
ShortInputs ==
    {Joined(ps) : ps \in UNION {[1..n -> Pieces] : n \in 0..MaxPieces}}

\* n copies of u
RECURSIVE Repeat(_, _)
Repeat(u, n) ==
    IF n = 0 THEN <<>>
    ELSE LET h == Repeat(u, n \div 2)
         IN  IF n % 2 = 0 THEN h \o h ELSE h \o h \o u

\* Morse strings of about MORSE_MESSAGE_MAX_LENGTH one-symbol tokens, in
\* either separator convention, ending in a token and a word gap or not
LongInputs ==
    {Repeat(u, n) \o tail :
        u \in {<<".", " ", " ">>, <<".", " ">>},
        n \in (MORSE_MESSAGE_MAX_LENGTH - 2)..(MORSE_MESSAGE_MAX_LENGTH + 1),
        tail \in {<<>>, <<".">>, <<".">> \o MORSE_WORD_SEPARATOR}}

\* texts whose encoding is about MORSE_MESSAGE_MAX_LENGTH characters long
\* when every character takes twelve (a digit with separators)
LongTexts ==
    {Repeat(u, n) :
        u \in {<<"0">>, <<"E">>, <<" ">>},
        n \in (MORSE_MESSAGE_MAX_LENGTH \div 12 - 3)
                ..(MORSE_MESSAGE_MAX_LENGTH \div 12 + 4)}

Symbols == {MORSE_WEIGHTED_NODES[i] : i \in 1..Len(MORSE_WEIGHTED_NODES)}

SameKey(a, b) == s_compare(a, b) = 0

\* the node holding a payload equal to data, or NULL
RECURSIVE Find(_, _)
Find(node, data) ==
    IF node = NULL THEN NULL
    ELSE IF s_compare(data, bistree_data(node)) < 0 THEN Find(node.left, data)
    ELSE IF s_compare(data, bistree_data(node)) > 0 THEN Find(node.right, data)
    ELSE node

\* how the tree holds the key of data: not at all, hidden or visible
StateOf(root, data) ==
    IF Find(root, data) = NULL THEN "absent"
    ELSE IF bistree_is_hidden(Find(root, data)) THEN "hidden"
    ELSE "visible"

NoCodec ==
    /\ text = <<>>
    /\ flags = 0
    /\ dflags = 0
    /\ stage = "idle"
    /\ encoded = [ret |-> 0, dst |-> <<>>]
    /\ decoded = [ret |-> 0, dst |-> <<>>, out_pos |-> 0]
    /\ reencoded = [ret |-> 0, dst |-> <<>>]
    /\ freed = <<>>
    /\ forest = NoForest

(***************************************************************************)
(* Operations                                                              *)
(***************************************************************************)
MorseInit(failIdx, nomem) ==
    /\ phase = "start"
    /\ LET m == morse_init(failIdx, nomem) IN
           /\ tree' = m.root
           /\ size' = m.size
    /\ phase' = IF nomem = 0 THEN "ready" ELSE "partial"
    /\ op' = "morse_init"
    /\ arg' = NUL
    /\ ret' = 0
    /\ out' = NUL
    /\ before' = "none"
    /\ live' = IF nomem = 0 THEN Symbols
               ELSE {morse_nodes[j + 1] : j \in
                        {k \in 0..(Len(morse_nodes) - 2) :
                            IF nomem = 3 THEN k < failIdx ELSE k # failIdx}}
    /\ freed' = <<>>
    /\ UNCHANGED codecVars
    /\ UNCHANGED forest

BistreeInsert(data, nomem) ==
    /\ phase \in {"ready", "partial"}
    /\ LET r == bistree_insert(size, tree, data, nomem) IN
           /\ tree' = r.node
           /\ size' = r.size
           /\ ret' = r.retval
           /\ freed' = r.destroyed
           /\ live' = IF r.retval = 0
                      THEN {p \in live : ~SameKey(p, data)} \cup {data}
                      ELSE live
    /\ op' = "bistree_insert"
    /\ arg' = data
    /\ before' = StateOf(tree, data)
    /\ out' = NUL
    /\ UNCHANGED phase
    /\ UNCHANGED codecVars
    /\ UNCHANGED forest

BistreeRemove(data) ==
    /\ phase \in {"ready", "partial"}
    /\ LET r == bistree_remove(tree, data) IN
           /\ tree' = r.node
           /\ ret' = r.retval
           /\ live' = IF r.retval = 0
                      THEN {p \in live : ~SameKey(p, data)}
                      ELSE live
    /\ op' = "bistree_remove"
    /\ arg' = data
    /\ before' = StateOf(tree, data)
    /\ out' = NUL
    /\ UNCHANGED <<phase, size>>
    /\ freed' = <<>>
    /\ UNCHANGED codecVars
    /\ UNCHANGED forest

BistreeLookup(data) ==
    /\ phase \in {"ready", "partial"}
    /\ LET r == bistree_lookup(tree, data) IN
           /\ ret' = r.retval
           /\ out' = r.data
    /\ op' = "bistree_lookup"
    /\ arg' = data
    /\ before' = StateOf(tree, data)
    /\ UNCHANGED <<phase, tree, size, live>>
    /\ freed' = <<>>
    /\ UNCHANGED codecVars
    /\ UNCHANGED forest

BistreeDestroy ==
    /\ phase \in {"ready", "partial"}
    /\ LET r == bistree_destroy(size, tree) IN
           /\ tree' = r.node
           /\ size' = r.size
           /\ freed' = r.destroyed
    /\ phase' = "destroyed"
    /\ op' = "bistree_destroy"
    /\ arg' = NUL
    /\ ret' = 0
    /\ out' = NUL
    /\ before' = "none"
    /\ live' = {}
    /\ UNCHANGED codecVars
    /\ UNCHANGED forest

MorseEncode(nomem) ==
    /\ phase = "ready"
    /\ stage = "idle"
    /\ encoded' = morse_encode(tree, encoded.dst, text, flags, nomem)
    /\ stage' = "encoded"
    /\ op' = "morse_encode"
    /\ ret' = encoded'.ret
    /\ arg' = NUL
    /\ out' = NUL
    /\ before' = "none"
    /\ UNCHANGED <<phase, tree, size, live, forest>>
    /\ freed' = <<>>
    /\ UNCHANGED <<text, flags, dflags, decoded, reencoded>>

\* the caller decodes what it encoded, as main does
MorseDecode(f) ==
    /\ phase = "ready"
    /\ stage = "encoded"
    /\ encoded.ret = 0
    /\ dflags' = f
    /\ decoded' = morse_decode(tree, encoded.dst, f)
    /\ stage' = "decoded"
    /\ op' = "morse_decode"
    /\ ret' = decoded'.ret
    /\ arg' = NUL
    /\ out' = NUL
    /\ before' = "none"
    /\ UNCHANGED <<phase, tree, size, live, forest>>
    /\ freed' = <<>>
    /\ UNCHANGED <<text, flags, encoded, reencoded>>

\* the decoded text is encoded again with the flags of the first encoding
MorseReEncode ==
    /\ phase = "ready"
    /\ stage = "decoded"
    /\ decoded.ret = 0
    /\ reencoded' = morse_encode(tree, reencoded.dst, decoded.dst, flags,
                                 FALSE)
    /\ stage' = "reencoded"
    /\ op' = "morse_encode"
    /\ ret' = reencoded'.ret
    /\ arg' = NUL
    /\ out' = NUL
    /\ before' = "none"
    /\ UNCHANGED <<phase, tree, size, live, forest>>
    /\ freed' = <<>>
    /\ UNCHANGED <<text, flags, dflags, encoded, decoded>>

\* s_morse_encode_char from the root into an empty buffer
EncodeChar(data, use_separators) ==
    /\ phase = "ready"
    /\ LET e == s_morse_encode_char(tree, data, <<>>, use_separators) IN
           /\ ret' = e.retval
           /\ encoded' = [ret |-> e.retval, dst |-> e.dst]
    /\ op' = "s_morse_encode_char"
    /\ arg' = data
    /\ before' = StateOf(tree, data)
    /\ out' = NUL
    /\ text' = <<>>
    /\ flags' = IF use_separators THEN MORSE_USE_SEPARATORS ELSE 0
    /\ stage' = "idle"
    /\ UNCHANGED <<phase, tree, size, live, forest>>
    /\ freed' = <<>>
    /\ UNCHANGED <<dflags, decoded, reencoded>>

\* s_morse_decode_char on the token morse_str
DecodeChar(morse_str) ==
    /\ phase = "ready"
    /\ LET d == s_morse_decode_char(tree, morse_str) IN
           /\ ret' = d.retval
           /\ out' = d.dst
    /\ op' = "s_morse_decode_char"
    /\ arg' = NUL
    /\ before' = "none"
    /\ text' = morse_str
    /\ flags' = 0
    /\ stage' = "idle"
    /\ encoded' = [ret |-> 0, dst |-> <<>>]
    /\ UNCHANGED <<phase, tree, size, live, forest>>
    /\ freed' = <<>>
    /\ UNCHANGED <<dflags, decoded, reencoded>>

\* morse_encode of a text the caller passes with the flags f
MorseEncodeText(src, f) ==
    /\ phase = "ready"
    /\ encoded' = morse_encode(tree, encoded.dst, src, f, FALSE)
    /\ text' = src
    /\ flags' = f
    /\ stage' = "encoded"
    /\ op' = "morse_encode"
    /\ ret' = encoded'.ret
    /\ arg' = NUL
    /\ out' = NUL
    /\ before' = "none"
    /\ UNCHANGED <<phase, tree, size, live, forest>>
    /\ freed' = <<>>
    /\ UNCHANGED <<dflags, decoded, reencoded>>

(***************************************************************************)
(* The search tree on its own: an empty tree after bistree_init            *)
(***************************************************************************)
Init ==
    /\ phase = "ready"
    /\ tree = NULL
    /\ size = 0
    /\ op = "bistree_init"
    /\ arg = NUL
    /\ ret = 0
    /\ out = NUL
    /\ before = "none"
    /\ live = {}
    /\ NoCodec

Next ==
    \/ \E data \in Payloads, nomem \in 0..2 : BistreeInsert(data, nomem)
    \/ \E data \in Removed : BistreeRemove(data)
    \/ \E data \in Payloads : BistreeLookup(data)

Spec == Init /\ [][Next]_vars

(***************************************************************************)
(* The alphabet tree: built by morse_init, then searched and edited        *)
(***************************************************************************)
InitMorse ==
    /\ phase = "start"
    /\ tree = NULL
    /\ size = 0
    /\ op = "none"
    /\ arg = NUL
    /\ ret = 0
    /\ out = NUL
    /\ before = "none"
    /\ live = {}
    /\ NoCodec

NextMorse ==
    \/ MorseInit(0, 0)
    \/ \E failIdx \in FailPoints, nomem \in 1..3 : MorseInit(failIdx, nomem)
    \/ \E data \in MorsePayloads : BistreeInsert(data, 0)
    \/ \E data \in MorsePayloads : BistreeRemove(data)
    \/ \E data \in MorsePayloads : BistreeLookup(data)

SpecMorse == InitMorse /\ [][NextMorse]_vars

(***************************************************************************)
(* The codec: the alphabet tree as morse_init leaves it when no allocation *)
(* fails, and one text run through encode, decode and encode again         *)
(***************************************************************************)
MorseTree == morse_init(0, 0)

InitCodec ==
    /\ phase = "ready"
    /\ tree = MorseTree.root
    /\ size = MorseTree.size
    /\ op = "morse_init"
    /\ arg = NUL
    /\ ret = 0
    /\ out = NUL
    /\ before = "none"
    /\ live = Symbols
    /\ text \in Texts
    /\ flags \in Flags
    /\ dflags = 0
    /\ stage = "idle"
    /\ encoded = [ret |-> 0, dst |-> <<>>]
    /\ decoded = [ret |-> 0, dst |-> <<>>, out_pos |-> 0]
    /\ reencoded = [ret |-> 0, dst |-> <<>>]
    /\ freed = <<>>
    /\ forest = NoForest

NextCodec ==
    \/ \E nomem \in BOOLEAN : MorseEncode(nomem)
    \/ \E f \in Flags : MorseDecode(f)
    \/ MorseReEncode

SpecCodec == InitCodec /\ [][NextCodec]_vars

(***************************************************************************)
(* The edited alphabet: symbols of the built tree are removed and inserted *)
(* again, and the codec is used on the tree as it then is                  *)
(***************************************************************************)
InitEdit ==
    /\ phase = "ready"
    /\ tree = MorseTree.root
    /\ size = MorseTree.size
    /\ op = "morse_init"
    /\ arg = NUL
    /\ ret = 0
    /\ out = NUL
    /\ before = "none"
    /\ live = Symbols
    /\ NoCodec

NextEdit ==
    \/ \E data \in EditPayloads : BistreeInsert(data, 0)
    \/ \E data \in EditPayloads : BistreeRemove(data)
    \/ \E data \in EditChars, use_separators \in BOOLEAN :
           EncodeChar(data, use_separators)
    \/ \E morse_str \in Tokens : DecodeChar(morse_str)
    \/ \E src \in EditTexts, f \in Flags : MorseEncodeText(src, f)

SpecEdit == InitEdit /\ [][NextEdit]_vars

(***************************************************************************)
(* Decoding: the alphabet tree as built and a Morse string received from   *)
(* elsewhere in the caller's buffer                                        *)
(***************************************************************************)
InitDecode ==
    /\ phase = "ready"
    /\ tree = MorseTree.root
    /\ size = MorseTree.size
    /\ op = "morse_init"
    /\ arg = NUL
    /\ ret = 0
    /\ out = NUL
    /\ before = "none"
    /\ live = Symbols
    /\ text = <<>>
    /\ flags = 0
    /\ dflags = 0
    /\ stage = "encoded"
    /\ \E src \in ShortInputs \cup LongInputs :
           encoded = [ret |-> 0, dst |-> src]
    /\ decoded = [ret |-> 0, dst |-> <<>>, out_pos |-> 0]
    /\ reencoded = [ret |-> 0, dst |-> <<>>]
    /\ freed = <<>>
    /\ forest = NoForest

NextDecode == \E f \in Flags : MorseDecode(f)

SpecDecode == InitDecode /\ [][NextDecode]_vars

(***************************************************************************)
(* Encoding long texts with the alphabet tree as built                     *)
(***************************************************************************)
InitEncode ==
    /\ phase = "ready"
    /\ tree = MorseTree.root
    /\ size = MorseTree.size
    /\ op = "morse_init"
    /\ arg = NUL
    /\ ret = 0
    /\ out = NUL
    /\ before = "none"
    /\ live = Symbols
    /\ text \in LongTexts
    /\ flags \in Flags
    /\ dflags = 0
    /\ stage = "idle"
    /\ encoded = [ret |-> 0, dst |-> <<>>]
    /\ decoded = [ret |-> 0, dst |-> <<>>, out_pos |-> 0]
    /\ reencoded = [ret |-> 0, dst |-> <<>>]
    /\ freed = <<>>
    /\ forest = NoForest

NextEncode == \E nomem \in BOOLEAN : MorseEncode(nomem)

SpecEncode == InitEncode /\ [][NextEncode]_vars

(***************************************************************************)
(* The life of a tree: inserts and removals, then bistree_destroy          *)
(***************************************************************************)
\* payload objects handed to the tree: two keys with two objects each
\* that compare equal, and a third key
LifePayloads == {"E", "e", "T", "t", "I"}

InitLife ==
    /\ phase = "ready"
    /\ tree = NULL
    /\ size = 0
    /\ op = "bistree_init"
    /\ arg = NUL
    /\ ret = 0
    /\ out = NUL
    /\ before = "none"
    /\ live = {}
    /\ NoCodec

\* the caller never hands over an object the tree still owns
InsertFresh(data, nomem) ==
    /\ Find(tree, data) # NULL => bistree_data(Find(tree, data)) # data
    /\ BistreeInsert(data, nomem)

NextLife ==
    \/ \E data \in LifePayloads, nomem \in 0..2 : InsertFresh(data, nomem)
    \/ \E data \in LifePayloads : BistreeRemove(data)
    \/ BistreeDestroy

SpecLife == InitLife /\ [][NextLife]_vars

(***************************************************************************)
(* Plain trees: two trees grown from their roots, then bitree_merge        *)
(***************************************************************************)
MergePayloads == {"a", "b"}

\* the caller holds three trees made by bitree_init
InitMerge ==
    /\ phase = "forest"
    /\ tree = NULL
    /\ size = 0
    /\ op = "bitree_init"
    /\ arg = NUL
    /\ ret = 0
    /\ out = NUL
    /\ before = "none"
    /\ live = {}
    /\ NoCodec

\* bitree_ins_left(tree, bitree_root(tree), data) on the left or the right
\* input tree: the root of an empty tree, then the root's left child
BitreeInsLeft(which, data, nomem) ==
    /\ phase = "forest"
    /\ LET t == forest[which]
           r == bitree_ins_left(t.size, t.root, data, nomem)
       IN  /\ forest' = [forest EXCEPT ![which] =
                             [size |-> r.size, root |-> r.node]]
           /\ ret' = r.retval
    /\ op' = "bitree_ins_left"
    /\ arg' = data
    /\ UNCHANGED <<phase, tree, size, out, before, live, freed>>
    /\ UNCHANGED codecVars

\* bitree_ins_right(tree, bitree_root(tree), data)
BitreeInsRight(which, data, nomem) ==
    /\ phase = "forest"
    /\ LET t == forest[which]
           r == bitree_ins_right(t.size, t.root, data, nomem)
       IN  /\ forest' = [forest EXCEPT ![which] =
                             [size |-> r.size, root |-> r.node]]
           /\ ret' = r.retval
    /\ op' = "bitree_ins_right"
    /\ arg' = data
    /\ UNCHANGED <<phase, tree, size, out, before, live, freed>>
    /\ UNCHANGED codecVars

\* bitree_merge(merge, left, right, data): the tree its parameter names at
\* the return is held by no variable of the caller
BitreeMerge(data, nomem) ==
    /\ phase = "forest"
    /\ LET r == bitree_merge(forest.merge, forest.left, forest.right,
                             data, nomem)
       IN  /\ forest' = [merge |-> r.merge, left |-> r.left,
                         right |-> r.right,
                         unowned |-> IF r.local = NULL THEN forest.unowned
                                     ELSE forest.unowned \cup {r.local}]
           /\ ret' = r.retval
    /\ phase' = "merged"
    /\ op' = "bitree_merge"
    /\ arg' = data
    /\ UNCHANGED <<tree, size, out, before, live, freed>>
    /\ UNCHANGED codecVars

NextMerge ==
    \/ \E which \in {"left", "right"}, data \in MergePayloads,
          nomem \in BOOLEAN : BitreeInsLeft(which, data, nomem)
    \/ \E which \in {"left", "right"}, data \in MergePayloads,
          nomem \in BOOLEAN : BitreeInsRight(which, data, nomem)
    \/ \E data \in MergePayloads, nomem \in 0..2 : BitreeMerge(data, nomem)

SpecMerge == InitMerge /\ [][NextMerge]_vars

(***************************************************************************)
(* Shape of a tree                                                         *)
(***************************************************************************)
RECURSIVE Height(_)
Height(node) ==
    IF node = NULL THEN 0
    ELSE LET hl == Height(node.left)
             hr == Height(node.right)
         IN  1 + (IF hl > hr THEN hl ELSE hr)

RECURSIVE Count(_)
Count(node) ==
    IF node = NULL THEN 0 ELSE 1 + Count(node.left) + Count(node.right)

\* the subtrees rooted at every node of the tree
RECURSIVE Subtrees(_)
Subtrees(node) ==
    IF node = NULL THEN {}
    ELSE {node} \cup Subtrees(node.left) \cup Subtrees(node.right)

\* the payloads held by the nodes of a tree, hidden or not
RECURSIVE Keys(_)
Keys(node) ==
    IF node = NULL THEN {}
    ELSE {bistree_data(node)} \cup Keys(node.left) \cup Keys(node.right)

\* the tree with every avl record blanked: parent / child links only
RECURSIVE Shape(_)
Shape(node) ==
    IF node = NULL THEN NULL
    ELSE [left |-> Shape(node.left), right |-> Shape(node.right)]

\* the tree without its hidden flags
RECURSIVE Unhidden(_)
Unhidden(node) ==
    IF node = NULL THEN NULL
    ELSE [node EXCEPT !.data.is_hidden = FALSE,
                      !.left = Unhidden(node.left),
                      !.right = Unhidden(node.right)]

\* the tree without its payloads
RECURSIVE Skeleton(_)
Skeleton(node) ==
    IF node = NULL THEN NULL
    ELSE [node EXCEPT !.data.data = NUL,
                      !.left = Skeleton(node.left),
                      !.right = Skeleton(node.right)]

(***************************************************************************)
(* C1: after every insert / remove on a tree that started empty, every     *)
(* node's balance factor is +1, 0 or -1 and equals the height of its left  *)
(* subtree minus the height of its right subtree.                          *)
(***************************************************************************)
C1_AvlInvariant ==
    \A n \in Subtrees(tree) :
        /\ bistree_factor(n) \in {AVL_LEFT_HEAVY, AVL_BALANCED, AVL_RIGHT_HEAVY}
        /\ bistree_factor(n) = Height(n.left) - Height(n.right)

\* rotations have run, a key is hidden and a node is not balanced
C1_Witness ==
    /\ op = "bistree_insert" /\ ret = 0
    /\ size >= 6
    /\ Height(tree) = 3
    /\ \E n \in Subtrees(tree) : bistree_is_hidden(n)
    /\ \E n \in Subtrees(tree) : bistree_factor(n) # AVL_BALANCED

(***************************************************************************)
(* C2: after every insert / remove, for every node, hidden or visible, all *)
(* payloads of its left subtree compare less than its payload and all      *)
(* payloads of its right subtree compare greater; no two nodes hold equal  *)
(* keys.                                                                   *)
(***************************************************************************)
C2_BstInvariant ==
    /\ \A n \in Subtrees(tree) :
           /\ \A k \in Keys(n.left) : s_compare(k, bistree_data(n)) < 0
           /\ \A k \in Keys(n.right) : s_compare(k, bistree_data(n)) > 0
    /\ Count(tree) = Cardinality({toupper(k) : k \in Keys(tree)})

C2_Witness ==
    /\ op = "bistree_insert" /\ ret = 0 /\ before = "absent"
    /\ size >= 5
    /\ Height(tree) = 3
    /\ Height(tree.left) = 2 /\ Height(tree.right) = 2
    /\ \E n \in Subtrees(tree) : bistree_is_hidden(n) /\ Height(n) = 2

(***************************************************************************)
(* C4: a bistree_remove that finds its key changes only the is_hidden flag *)
(* of the matched node: links, balance factors, payloads, the flags of the *)
(* other nodes and the node count stay as they were.                       *)
(***************************************************************************)
HiddenKeys(root) ==
    {bistree_data(n) : n \in {m \in Subtrees(root) : bistree_is_hidden(m)}}

C4_RemoveFrame ==
    [][(op' = "bistree_remove" /\ ret' = 0) =>
          /\ Unhidden(tree') = Unhidden(tree)
          /\ HiddenKeys(tree') =
                 HiddenKeys(tree) \cup {bistree_data(Find(tree, arg'))}
          /\ size' = size
          /\ Count(tree') = Count(tree)]_vars

C4_Witness ==
    /\ op = "bistree_remove" /\ ret = 0 /\ before = "visible"
    /\ size >= 4
    /\ Find(tree, arg) # tree
    /\ bistree_is_hidden(Find(tree, arg))

(***************************************************************************)
(* C5: inserting a payload equal to a hidden node's payload returns 0,     *)
(* clears the node's is_hidden flag and stores the new payload in it; no   *)
(* node is created and the rest of the tree (links, balance factors, other *)
(* payloads and flags, node count) is as before the call.                  *)
(***************************************************************************)
\* the tree with the node of data's key blanked
RECURSIVE Except(_, _)
Except(node, data) ==
    IF node = NULL THEN NULL
    ELSE [node EXCEPT
              !.data.data = IF SameKey(@, data) THEN NUL ELSE @,
              !.data.is_hidden =
                  IF SameKey(bistree_data(node), data) THEN FALSE ELSE @,
              !.left = Except(node.left, data),
              !.right = Except(node.right, data)]

C5_RevealFrame ==
    [][(op' = "bistree_insert" /\ before' = "hidden") =>
          /\ ret' = 0
          /\ size' = size
          /\ Count(tree') = Count(tree)
          /\ Except(tree', arg') = Except(tree, arg')
          /\ StateOf(tree', arg') = "visible"
          /\ bistree_data(Find(tree', arg')) = arg']_vars

C5_Witness ==
    /\ op = "bistree_insert" /\ before = "hidden" /\ ret = 0
    /\ arg = "e"
    /\ bistree_data(Find(tree, arg)) = "e"
    /\ Find(tree, arg) # tree
    /\ \E n \in Subtrees(tree) :
           Find(n, arg) # NULL /\ bistree_factor(n) # AVL_BALANCED

(***************************************************************************)
(* C6: inserting a payload equal to a visible node's payload returns 1 and *)
(* changes nothing, at whatever depth the duplicate is found.              *)
(***************************************************************************)
C6_DuplicateFrame ==
    [][(op' = "bistree_insert" /\ before' = "visible") =>
          /\ ret' = 1
          /\ tree' = tree
          /\ size' = size
          /\ live' = live]_vars

C6_Witness ==
    /\ op = "bistree_insert" /\ before = "visible" /\ ret = 1
    /\ arg = "e"
    /\ bistree_data(Find(tree, arg)) = "E"
    /\ Find(tree, arg) \notin {tree, tree.left, tree.right}

(***************************************************************************)
(* C7 as stated: bistree_remove returns non-zero whenever no visible node  *)
(* matches the key, also when a matching node exists but is hidden.        *)
(***************************************************************************)
C7_Original ==
    (op = "bistree_remove" /\ before # "visible") => ret # 0

(***************************************************************************)
(* C7 as amended: bistree_remove returns non-zero exactly when no node,    *)
(* visible or hidden, matches the key; removing a key that is already      *)
(* hidden returns 0 again and leaves the tree as it is.                    *)
(***************************************************************************)
C7_RemoveStatus ==
    [][op' = "bistree_remove" =>
          /\ (ret' = 0) = (before' # "absent")
          /\ (ret' # 0) = (ret' = -1)
          /\ before' # "visible" => tree' = tree
          /\ StateOf(tree', arg') = IF before' = "absent" THEN "absent"
                                    ELSE "hidden"]_vars

C7_Witness ==
    /\ op = "bistree_remove" /\ before = "hidden" /\ ret = 0
    /\ StateOf(tree, arg) = "hidden"

(***************************************************************************)
(* C8: the tree behaves as a set of visible keys: bistree_lookup(x) finds  *)
(* x exactly when the last accepted insert of x's key has not been         *)
(* followed by an accepted remove, it passes back the payload that insert  *)
(* stored, and never the payload of a hidden node.                         *)
(***************************************************************************)
C8_LookupIsSet ==
    /\ \A x \in Payloads :
           LET r == bistree_lookup(tree, x) IN
           /\ (r.retval = 0) = (\E p \in live : SameKey(p, x))
           /\ r.retval = 0 =>
                  /\ r.data \in live
                  /\ SameKey(r.data, x)
                  /\ StateOf(tree, x) = "visible"
           /\ r.retval # 0 => r.retval = -1 /\ r.data = x
    /\ op = "bistree_lookup" =>
           /\ (ret = 0) = (\E p \in live : SameKey(p, arg))
           /\ ret = 0 => out \in live /\ SameKey(out, arg)
           /\ ret # 0 => out = arg

C8_Witness ==
    /\ op = "bistree_lookup" /\ ret = 0
    /\ arg = "E" /\ out = "e"
    /\ \E n \in Subtrees(tree) : bistree_is_hidden(n)

(***************************************************************************)
(* C3 as stated: after morse_init the root is the marker '~', its children *)
(* are 'E' and 'T', and for every letter and digit the path from the root  *)
(* to its node (left = dot, right = dash) is its code in the International *)
(* table, which is what encodeChar returns for it.                         *)
(***************************************************************************)
\* the dot / dash paths that lead from node to a node holding c
RECURSIVE PathsTo(_, _)
PathsTo(node, c) ==
    IF node = NULL THEN {}
    ELSE (IF bistree_data(node) = c THEN {<<>>} ELSE {})
         \cup {MORSE_DIT \o p : p \in PathsTo(node.left, c)}
         \cup {MORSE_DAH \o p : p \in PathsTo(node.right, c)}

CanonicalShape ==
    /\ size = Len(MORSE_WEIGHTED_NODES)
    /\ Count(tree) = size
    /\ bistree_data(tree) = "~"
    /\ bistree_data(tree.left) = "E"
    /\ bistree_data(tree.right) = "T"
    /\ \A c \in DOMAIN InternationalTable :
           PathsTo(tree, c) = {InternationalTable[c]}

JustBuilt == op = "morse_init" /\ phase = "ready"

C3_Original ==
    JustBuilt =>
        /\ CanonicalShape
        /\ \A c \in DOMAIN InternationalTable, use_separators \in BOOLEAN :
               s_morse_encode_char(tree, c, <<>>, use_separators) =
                   [retval |-> 0, dst |-> InternationalTable[c]]

(***************************************************************************)
(* C3 as amended: the shape is as stated, and encodeChar returns the       *)
(* table's code when called without separators; with separators it returns *)
(* the same dots and dashes each followed by one space.                    *)
(***************************************************************************)
RECURSIVE Spaced(_)
Spaced(code) ==
    IF code = <<>> THEN <<>>
    ELSE <<Head(code)>> \o MORSE_SEP \o Spaced(Tail(code))

C3_MorseShape ==
    JustBuilt =>
        /\ CanonicalShape
        /\ \A c \in DOMAIN InternationalTable :
               /\ s_morse_encode_char(tree, c, <<>>, FALSE) =
                      [retval |-> 0, dst |-> InternationalTable[c]]
               /\ s_morse_encode_char(tree, c, <<>>, TRUE) =
                      [retval |-> 0, dst |-> Spaced(InternationalTable[c])]

C3_Witness ==
    /\ JustBuilt
    /\ size = 44
    /\ \A c \in DOMAIN InternationalTable : StateOf(tree, c) = "visible"

(***************************************************************************)
(* C9: message round trip: for every text over the supported alphabet      *)
(* (letters in either case, digits, punctuation, fillers, spaces), decoding *)
(* with separators what morse_encode produced with separators gives the    *)
(* upper-cased text without its filler symbols, trimmed of leading and     *)
(* trailing spaces.                                                        *)
(***************************************************************************)
RECURSIVE UpperCased(_)
UpperCased(s) ==
    IF s = <<>> THEN <<>> ELSE <<toupper(Head(s))>> \o UpperCased(Tail(s))

RECURSIVE WithoutFillers(_)
WithoutFillers(s) ==
    IF s = <<>> THEN <<>>
    ELSE IF Head(s) \in {"~", "(", ")", "[", "]"}
    THEN WithoutFillers(Tail(s))
    ELSE <<Head(s)>> \o WithoutFillers(Tail(s))

RECURSIVE Trimmed(_)
Trimmed(s) ==
    IF s = <<>> THEN <<>>
    ELSE IF Head(s) = " " THEN Trimmed(Tail(s))
    ELSE IF s[Len(s)] = " " THEN Trimmed(SubSeq(s, 1, Len(s) - 1))
    ELSE s

Supported(s) ==
    \A i \in 1..Len(s) : s[i] = " " \/ toupper(s[i]) \in Symbols

C9_RoundTrip ==
    (/\ stage = "decoded"
     /\ flags = MORSE_USE_SEPARATORS
     /\ UseSeparators(dflags)
     /\ Supported(text))
    => decoded.dst = Trimmed(WithoutFillers(UpperCased(text)))

(***************************************************************************)
(* C10: idempotence of re-encoding: with separators enabled in all three   *)
(* calls, encoding the decoded encoding of a text gives the Morse string   *)
(* of the first encoding.                                                  *)
(***************************************************************************)
C10_Idempotent ==
    (/\ stage = "reencoded"
     /\ flags = MORSE_USE_SEPARATORS
     /\ UseSeparators(dflags))
    => /\ reencoded.ret = 0
       /\ reencoded.dst = encoded.dst

(***************************************************************************)
(* C11 as stated: with separators enabled and no prosigns, a single word   *)
(* of letters is encoded as the letters' codes of the International table, *)
(* each as contiguous dots and dashes, joined by the two-space character   *)
(* separator, with nothing after the last code.                            *)
(***************************************************************************)
Letters(s) ==
    /\ s # <<>>
    /\ \A i \in 1..Len(s) : toupper(s[i]) \in DOMAIN InternationalTable

\* the codes of the letters of a word joined by the character separator;
\* spaced: every dot and dash is followed by one space
RECURSIVE WordCodes(_, _)
WordCodes(s, spaced) ==
    LET code == IF spaced THEN Spaced(InternationalTable[toupper(Head(s))])
                ELSE InternationalTable[toupper(Head(s))]
    IN  IF Len(s) = 1 THEN code
        ELSE code \o MORSE_CHAR_SEPARATOR \o WordCodes(Tail(s), spaced)

EncodedWord ==
    /\ stage = "encoded"
    /\ encoded.ret = 0
    /\ flags = MORSE_USE_SEPARATORS
    /\ Letters(text)

C11_Original ==
    EncodedWord => encoded.dst = WordCodes(text, FALSE)

(***************************************************************************)
(* C11 as amended: with separators enabled and no prosigns, a single word  *)
(* of letters is encoded as the letters' codes in the form encodeChar      *)
(* gives with separators (every dot and dash followed by one space),       *)
(* joined by the two-space character separator, with no word separator     *)
(* and nothing after the last letter's code.                               *)
(***************************************************************************)
C11_WordCodes ==
    EncodedWord => encoded.dst = WordCodes(text, TRUE)

C11_Witness ==
    /\ EncodedWord
    /\ text = <<"S", "t", "E">>
    /\ encoded.dst = <<".", " ", ".", " ", ".", " ", " ", " ",
                       "-", " ", " ", " ", ".", " ">>

(***************************************************************************)
(* C12 as stated: with the separator option disabled, the codes of         *)
(* consecutive characters of a word are separated by a single space and    *)
(* the codes of consecutive words by two or more spaces.                   *)
(***************************************************************************)
\* n spaces
RECURSIVE Spaces(_)
Spaces(n) == IF n = 0 THEN <<>> ELSE <<" ">> \o Spaces(n - 1)

\* letters with single spaces between words, none at either end
Words(s) ==
    /\ s # <<>>
    /\ \A i \in 1..Len(s) :
           \/ toupper(s[i]) \in DOMAIN InternationalTable
           \/ /\ s[i] = " "
              /\ 1 < i /\ i < Len(s)
              /\ s[i - 1] # " " /\ s[i + 1] # " "

\* the codes of the letters, one space between the codes of a word and
\* gap spaces between words
RECURSIVE SpaceSeparated(_, _)
SpaceSeparated(s, gap) ==
    IF s = <<>> THEN <<>>
    ELSE IF Head(s) = " " THEN Spaces(gap) \o SpaceSeparated(Tail(s), gap)
    ELSE InternationalTable[toupper(Head(s))]
         \o (IF Len(s) > 1 /\ s[2] # " " THEN <<" ">> ELSE <<>>)
         \o SpaceSeparated(Tail(s), gap)

EncodedPlain ==
    /\ stage = "encoded"
    /\ encoded.ret = 0
    /\ flags = 0

RECURSIVE PlainCodes(_)
PlainCodes(s) ==
    IF s = <<>> THEN <<>>
    ELSE (IF toupper(Head(s)) \in DOMAIN InternationalTable
          THEN InternationalTable[toupper(Head(s))] ELSE <<>>)
         \o PlainCodes(Tail(s))

RECURSIVE SignalCodes(_)
SignalCodes(s) ==
    IF s = <<>> THEN <<>>
    ELSE Spaced(InternationalTable[Head(s)]) \o SignalCodes(Tail(s))

NothingToSend(s) ==
    \A i \in 1..Len(s) :
        s[i] # " " /\ toupper(s[i]) \notin DOMAIN InternationalTable

C13_Prosigns ==
    (stage = "encoded" /\ encoded.ret = 0) =>
        /\ (UseSeparators(flags) /\ UseProsigns(flags)) =>
               encoded.dst =
                   SignalCodes(<<"C", "T">>) \o MORSE_WORD_SEPARATOR
                   \o morse_encode(tree, <<>>, text, MORSE_USE_SEPARATORS,
                                   FALSE).dst
                   \o MORSE_WORD_SEPARATOR \o SignalCodes(<<"S", "K">>)
        /\ (~UseProsigns(flags) /\ NothingToSend(text)) =>
               encoded.dst = <<>>

C13_Witness ==
    /\ stage = "encoded"
    /\ encoded.ret = 0
    /\ UseSeparators(flags) /\ UseProsigns(flags)
    /\ text = <<"E", "t">>
    /\ Len(encoded.dst) = 10 + 6 + 6 + 6 + 12

(***************************************************************************)
(* C14: characters with no entry in the priority table are skipped by      *)
(* morse_encode: the call succeeds and its output is the output for the    *)
(* text with every such character deleted, wherever the character stands.  *)
(***************************************************************************)
Unrecognized(c) == c # " " /\ toupper(c) \notin Symbols

RECURSIVE WithoutUnrecognized(_)
WithoutUnrecognized(s) ==
    IF s = <<>> THEN <<>>
    ELSE IF Unrecognized(Head(s)) THEN WithoutUnrecognized(Tail(s))
    ELSE <<Head(s)>> \o WithoutUnrecognized(Tail(s))

C14_Skipped ==
    (stage = "encoded" /\ encoded.ret = 0) =>
        encoded.dst = morse_encode(tree, <<>>, WithoutUnrecognized(text),
                                   flags, FALSE).dst

(***************************************************************************)
(* C15: morse_encode fails only for null arguments: in every tree reached  *)
(* from the built alphabet by bistree_remove and bistree_insert, a         *)
(* character that encodeChar cannot encode is skipped and the call         *)
(* returns 0.                                                              *)
(***************************************************************************)
C15_NeverFails ==
    (op = "morse_encode" /\ stage = "encoded") => encoded.ret = 0

(***************************************************************************)
(* C16: for non-null arguments morse_decode returns success in either      *)
(* separator mode; a token that decodeChar rejects contributes no          *)
(* character and every other token of the message contributes its decoded  *)
(* symbol, in order (for messages whose text fits the output bound).       *)
(***************************************************************************)
\* the symbol a token stands for, nothing when decodeChar rejects it
SymbolOf(token) ==
    IF token = <<>> \/ s_morse_decode_char(tree, token).retval # 0
    THEN <<>>
    ELSE <<s_morse_decode_char(tree, token).dst>>

\* number of spaces s begins with
RECURSIVE LeadingSpaces(_)
LeadingSpaces(s) ==
    IF s # <<>> /\ Head(s) = " " THEN 1 + LeadingSpaces(Tail(s)) ELSE 0

Drop(s, n) == SubSeq(s, n + 1, Len(s))

Begins(s, lit) == Len(s) >= Len(lit) /\ SubSeq(s, 1, Len(lit)) = lit

\* the text of a message: its tokens are delimited by the separators of
\* the mode, token is the one being read
RECURSIVE TextOf(_, _, _)
TextOf(s, token, sep) ==
    IF s = <<>> THEN SymbolOf(token)
    ELSE IF sep /\ Begins(s, MORSE_WORD_SEPARATOR)
    THEN SymbolOf(token) \o <<" ">>
         \o TextOf(Drop(s, Len(MORSE_WORD_SEPARATOR)), <<>>, sep)
    ELSE IF sep /\ Begins(s, MORSE_CHAR_SEPARATOR)
    THEN SymbolOf(token)
         \o TextOf(Drop(s, Len(MORSE_CHAR_SEPARATOR)), <<>>, sep)
    ELSE IF ~sep /\ Head(s) = " "
    THEN SymbolOf(token)
         \o (IF LeadingSpaces(s) >= 2 THEN <<" ">> ELSE <<>>)
         \o TextOf(Drop(s, LeadingSpaces(s)), <<>>, sep)
    ELSE IF Head(s) \in {".", "-", " "}
    THEN TextOf(Tail(s), Append(token, Head(s)), sep)
    ELSE TextOf(Tail(s), token, sep)

DecodedShort ==
    /\ stage = "decoded"
    /\ Len(encoded.dst) < MORSE_MESSAGE_MAX_LENGTH

C20_Bounded ==
    stage = "decoded" => decoded.out_pos <= MORSE_MESSAGE_MAX_LENGTH

(***************************************************************************)
(* C17 as stated: decodeChar returns Invalid exactly when the token holds  *)
(* a character other than dot or dash, or a step of the descent lands on   *)
(* an empty branch, or the node reached after the last symbol is hidden;   *)
(* otherwise it returns that node's payload.                               *)
(***************************************************************************)
\* the node a dot/dash path leads to from node, NULL once a step lands on
\* an empty branch
RECURSIVE NodeAt(_, _)
NodeAt(node, path) ==
    IF node = NULL THEN NULL
    ELSE IF path = <<>> THEN node
    ELSE IF Head(path) = "." THEN NodeAt(node.left, Tail(path))
    ELSE NodeAt(node.right, Tail(path))

RECURSIVE WithoutSpaces(_)
WithoutSpaces(s) ==
    IF s = <<>> THEN <<>>
    ELSE IF Head(s) = " " THEN WithoutSpaces(Tail(s))
    ELSE <<Head(s)>> \o WithoutSpaces(Tail(s))

\* what decodeChar is to return for a path of dots and dashes
Landed(path) ==
    IF NodeAt(tree, path) = NULL THEN [retval |-> -1, dst |-> NUL]
    ELSE IF bistree_is_hidden(NodeAt(tree, path))
    THEN [retval |-> -1, dst |-> NUL]
    ELSE [retval |-> 0, dst |-> bistree_data(NodeAt(tree, path))]

DecodedChar == op = "s_morse_decode_char"

C17_Original ==
    DecodedChar =>
        [retval |-> ret, dst |-> out] =
            IF \E i \in 1..Len(text) : text[i] \notin {".", "-"}
            THEN [retval |-> -1, dst |-> NUL]
            ELSE Landed(text)

(***************************************************************************)
(* C17 as amended: decodeChar skips the spaces of the token; it returns    *)
(* Invalid exactly when the token holds a character other than dot, dash   *)
(* or space, or a step of the descent lands on an empty branch, or the     *)
(* node reached after the last symbol is hidden; otherwise it returns      *)
(* that node's payload (the root's for a token without dots and dashes).   *)
(***************************************************************************)
C17_DecodeChar ==
    DecodedChar =>
        [retval |-> ret, dst |-> out] =
            IF \E i \in 1..Len(text) : text[i] \notin {".", "-", " "}
            THEN [retval |-> -1, dst |-> NUL]
            ELSE Landed(WithoutSpaces(text))

\* a spaced token is decoded through a hidden node
C17_Witness ==
    /\ DecodedChar
    /\ text = <<".", " ", ".">>
    /\ StateOf(tree, "E") = "hidden"
    /\ ret = 0
    /\ out = "I"

(***************************************************************************)
(* C18: in every tree reached from the built alphabet by bistree_remove    *)
(* and bistree_insert of alphabet symbols, encodeChar and decodeChar are   *)
(* inverse on visible symbols: encodeChar(c) succeeds exactly when the     *)
(* node of c is visible, and decodeChar of its result is then c up to      *)
(* case; encodeChar of what decodeChar returns for a dot/dash token is     *)
(* that token; a hidden symbol is rejected by encodeChar, and its code by  *)
(* decodeChar.                                                             *)
(***************************************************************************)
EncodedChar == op = "s_morse_encode_char"

DotsAndDashes(s) == \A i \in 1..Len(s) : s[i] \in {".", "-"}

AllVisible == \A n \in Subtrees(tree) : ~bistree_is_hidden(n)

C21_Bounded ==
    (stage = "encoded" /\ encoded.ret = 0) =>
        Len(encoded.dst) + 1 <= MORSE_MESSAGE_MAX_LENGTH


(***************************************************************************)
(* C22: the destructor is invoked exactly once for every payload the tree  *)
(* accepted.  Call by call: bistree_remove destroys nothing and keeps      *)
(* every payload; an insert that returns 0 stores its payload and destroys *)
(* exactly the payload it replaces when the key was hidden, nothing        *)
(* otherwise; an insert that does not return 0 (visible duplicate, failed  *)
(* allocation) destroys nothing and stores nothing; bistree_destroy hands  *)
(* each payload the tree holds, hidden or not, to the destructor once and  *)
(* leaves no node and node count 0.                                        *)
(***************************************************************************)
SeqToSet(s) == {s[i] : i \in 1..Len(s)}

C22_Destructor ==
    [][/\ op' = "bistree_remove" =>
            /\ freed' = <<>>
            /\ Keys(tree') = Keys(tree)
       /\ (op' = "bistree_insert" /\ ret' = 0) =>
            /\ arg' \in Keys(tree')
            /\ IF StateOf(tree, arg') = "hidden"
               THEN /\ freed' = <<bistree_data(Find(tree, arg'))>>
                    /\ Keys(tree') =
                         (Keys(tree) \ SeqToSet(freed')) \cup {arg'}
               ELSE /\ freed' = <<>>
                    /\ Keys(tree') = Keys(tree) \cup {arg'}
            /\ Count(tree') = Cardinality(Keys(tree'))
       /\ (op' = "bistree_insert" /\ ret' # 0) =>
            /\ freed' = <<>>
            /\ Keys(tree') = Keys(tree)
            /\ arg' \notin Keys(tree')
       /\ op' = "bistree_destroy" =>
            /\ SeqToSet(freed') = Keys(tree)
            /\ Len(freed') = Cardinality(Keys(tree))
            /\ Len(freed') = Count(tree)
            /\ tree' = NULL
            /\ size' = 0
      ]_vars

\* a teardown that destroyed three payloads, one of them of a hidden node
\* that had replaced an earlier payload of its key
C22_Witness ==
    /\ op = "bistree_destroy"
    /\ Len(freed) = 3
    /\ "e" \in SeqToSet(freed)
    /\ tree = NULL
    /\ size = 0


(***************************************************************************)
(* C23: a failed allocation leaves the tree as it was.  Wherever an insert *)
(* is called with a payload whose key the tree does not hold, the call     *)
(* whose avl record or whose tree node cannot be allocated returns -1 with *)
(* the same nodes, factors, hidden flags and node count and with nothing   *)
(* destroyed; and every insert that returned -1 left the tree and its node *)
(* count untouched.                                                        *)
(***************************************************************************)
AllocationFails(data, nomem) ==
    LET r == bistree_insert(size, tree, data, nomem)
    IN  /\ r.retval = -1
        /\ r.node = tree
        /\ r.size = size
        /\ r.destroyed = <<>>

C23_Unchanged ==
    [][/\ (op' = "bistree_insert" /\ before' = "absent") =>
              \A nomem \in 1..2 : AllocationFails(arg', nomem)
       /\ (op' = "bistree_insert" /\ ret' = -1) =>
              /\ before' = "absent"
              /\ tree' = tree
              /\ size' = size
              /\ freed' = <<>>
              /\ live' = live
      ]_vars

\* an insert that failed three levels down a tree with a hidden node
C23_Witness ==
    /\ op = "bistree_insert"
    /\ ret = -1
    /\ Height(tree) >= 3
    /\ size = Count(tree)
    /\ size >= 4
    /\ \E n \in Subtrees(tree) : bistree_is_hidden(n)
    /\ Find(tree, arg) = NULL


(***************************************************************************)
(* C24: after a successful bitree_merge the tree the caller passed as      *)
(* merge has a root holding data whose left and right children are the     *)
(* former roots of left and right, its size is 1 + size(left) +            *)
(* size(right), both input trees are empty, and no node is left in a tree  *)
(* the caller does not hold.                                               *)
(***************************************************************************)
C24_Merged ==
    [][(op' = "bitree_merge" /\ ret' = 0) =>
          /\ forest'.merge.root # NULL
          /\ forest'.merge.root.data = arg'
          /\ forest'.merge.root.left = forest.left.root
          /\ forest'.merge.root.right = forest.right.root
          /\ forest'.merge.size = 1 + forest.left.size + forest.right.size
          /\ forest'.left = bitree_init
          /\ forest'.right = bitree_init
          /\ forest'.unowned = {}
      ]_vars


(***************************************************************************)
(* C25: an insert that creates a node rotates at most once, at the deepest *)
(* ancestor of the new node that would become unbalanced.  With the        *)
(* critical node the deepest ancestor whose subtrees differ in height      *)
(* before the call: if there is none, the tree after the call has the      *)
(* shape of a plain leaf insertion; otherwise nothing outside the critical *)
(* node's subtree is modified (no link, payload, flag or balance factor    *)
(* above it), that subtree is as high as before the call, its root is      *)
(* AVL_BALANCED, and it is either the plain insertion unrotated (the new   *)
(* node went to the lighter side) or exactly one single or double rotation *)
(* of it (the new node went to the heavier side).                          *)
(***************************************************************************)
\* keys and links of a tree, without factors and flags
RECURSIVE Keyed(_)
Keyed(node) ==
    IF node = NULL THEN NULL
    ELSE [key |-> bistree_data(node), left |-> Keyed(node.left),
          right |-> Keyed(node.right)]

\* insertion of a leaf with no rebalancing
RECURSIVE PlainInsert(_, _)
PlainInsert(node, data) ==
    IF node = NULL THEN bitree_node_td(avl_node_td(data))
    ELSE IF s_compare(data, bistree_data(node)) < 0
    THEN [node EXCEPT !.left = PlainInsert(node.left, data)]
    ELSE [node EXCEPT !.right = PlainInsert(node.right, data)]

\* depth (the root is 1) of the deepest node on the search path of data
\* whose subtrees differ in height, 0 when there is none
RECURSIVE CriticalDepth(_, _, _)
CriticalDepth(node, data, depth) ==
    IF node = NULL THEN 0
    ELSE LET below == IF s_compare(data, bistree_data(node)) < 0
                      THEN CriticalDepth(node.left, data, depth + 1)
                      ELSE CriticalDepth(node.right, data, depth + 1)
         IN  IF below # 0 THEN below
             ELSE IF Height(node.left) # Height(node.right) THEN depth
             ELSE 0

\* the subtree at a depth of the search path of data
RECURSIVE SubAt(_, _, _)
SubAt(node, data, depth) ==
    IF depth = 1 \/ node = NULL THEN node
    ELSE IF s_compare(data, bistree_data(node)) < 0
    THEN SubAt(node.left, data, depth - 1)
    ELSE IF s_compare(data, bistree_data(node)) > 0
    THEN SubAt(node.right, data, depth - 1)
    ELSE node

\* the tree with the subtree at a depth of the search path of data replaced
RECURSIVE Graft(_, _, _, _)
Graft(node, data, sub, depth) ==
    IF depth = 1 THEN sub
    ELSE IF node = NULL THEN NULL
    ELSE IF s_compare(data, bistree_data(node)) < 0
    THEN [node EXCEPT !.left = Graft(node.left, data, sub, depth - 1)]
    ELSE [node EXCEPT !.right = Graft(node.right, data, sub, depth - 1)]

\* the single and double rotations a keyed tree admits
Rotations(t) ==
    (IF t.left # NULL
     THEN {[key |-> t.left.key, left |-> t.left.left,
            right |-> [key |-> t.key, left |-> t.left.right,
                       right |-> t.right]]}
     ELSE {})
    \cup
    (IF t.right # NULL
     THEN {[key |-> t.right.key, right |-> t.right.right,
            left |-> [key |-> t.key, left |-> t.left,
                      right |-> t.right.left]]}
     ELSE {})
    \cup
    (IF t.left # NULL /\ t.left.right # NULL
     THEN {[key |-> t.left.right.key,
            left |-> [key |-> t.left.key, left |-> t.left.left,
                      right |-> t.left.right.left],
            right |-> [key |-> t.key, left |-> t.left.right.right,
                       right |-> t.right]]}
     ELSE {})
    \cup
    (IF t.right # NULL /\ t.right.left # NULL
     THEN {[key |-> t.right.left.key,
            left |-> [key |-> t.key, left |-> t.left,
                      right |-> t.right.left.left],
            right |-> [key |-> t.right.key, left |-> t.right.left.right,
                       right |-> t.right.right]]}
     ELSE {})

Unbalanced(node) ==
    \/ Height(node.left) - Height(node.right) >= 2
    \/ Height(node.right) - Height(node.left) >= 2

OneRotation(pre, post, data) ==
    LET plain == PlainInsert(pre, data)
        crit == CriticalDepth(pre, data, 1)
        subPre == SubAt(pre, data, crit)
        subPlain == SubAt(plain, data, crit)
        subPost == SubAt(post, data, crit)
    IN  IF crit = 0
        THEN Keyed(post) = Keyed(plain)
        ELSE /\ post = Graft(pre, data, subPost, crit)
             /\ Height(subPost) = Height(subPre)
             /\ bistree_factor(subPost) = AVL_BALANCED
             /\ bistree_factor(subPre) # AVL_BALANCED
             /\ IF Unbalanced(subPlain)
                THEN Keyed(subPost) \in Rotations(Keyed(subPlain))
                ELSE Keyed(subPost) = Keyed(subPlain)

C25_OneRotation ==
    [][(op' = "bistree_insert" /\ ret' = 0 /\ before' = "absent") =>
          OneRotation(tree, tree', arg')
      ]_vars

\* an insert whose new node was lifted by a double rotation below the root
C25_Witness ==
    /\ op = "bistree_insert"
    /\ ret = 0
    /\ before = "absent"
    /\ size >= 5
    /\ Find(tree, arg) # tree
    /\ Find(tree, arg).left # NULL
    /\ Find(tree, arg).right # NULL


(***************************************************************************)
(* C26: the text morse_decode produces never contains a filler: for every  *)
(* input and either separator mode, with the tree as built by morse_init,  *)
(* no character of the output is the root marker '~' or one of '(', ')',   *)
(* '[', ']'.                                                               *)
(***************************************************************************)
C26_NoFiller ==
    stage = "decoded" =>
        \A i \in 1..Len(decoded.dst) : ~IsFiller(decoded.dst[i])

====
